---- MODULE Spec2Model ----
(***************************************************************************)
(* News-headline scraper (src/news_scraper.py): robots.txt policy check,   *)
(* page fetch with politeness delay, link extraction with keyword filter,  *)
(* aggregation over the --sources tokens and persistence.                  *)
(*                                                                         *)
(* Python strings are sequences of one-character strings, so that split,   *)
(* strip, lower, "in" and urljoin are computed and not assumed.            *)
(* Optional values: NoneV is None, Some(x) is the value x.                 *)
(***************************************************************************)
EXTENDS Integers, Sequences, FiniteSets, TLC

\* ------------------------------------------------------------------ bounds
\* Longest --sources list explored (argparse nargs="+": at least one token).
MaxSources == 2
\* Longest page (number of <a> elements) given to the extraction loop in
\* SpecExtract.
MaxLinks == 2
\* Longest list of records given to save_results in SpecSave.
MaxRecords == 2
\* Largest retries argument given to send_email in SpecSendEmail.
MaxRetries == 4
\* Most rows of a recipients file in SpecMail.
MaxRows == 2

\* ------------------------------------------------------- optional values
NoneV == <<>>
Some(x) == <<x>>
IsNone(o) == o = <<>>
Val(o) == o[1]

\* ------------------------------------------------------ string functions
\* str.lower() on the model's alphabet.
LowerChar(c) ==
    IF c = "A" THEN "a" ELSE IF c = "B" THEN "b" ELSE IF c = "M" THEN "m"
    ELSE IF c = "N" THEN "n" ELSE IF c = "S" THEN "s" ELSE c
Lower(s) == [i \in 1..Len(s) |-> LowerChar(s[i])]

\* Python's `k in t` on strings.
SubstringIn(k, t) ==
    \E i \in 0..(Len(t) - Len(k)) : SubSeq(t, i + 1, i + Len(k)) = k

IsSpace(c) == c = " "
RECURSIVE LStrip(_)
LStrip(s) == IF s # <<>> /\ IsSpace(Head(s)) THEN LStrip(Tail(s)) ELSE s
RECURSIVE RStrip(_)
RStrip(s) ==
    IF s # <<>> /\ IsSpace(s[Len(s)]) THEN RStrip(SubSeq(s, 1, Len(s) - 1)) ELSE s
\* str.strip()
Strip(s) == RStrip(LStrip(s))

\* `c in s` for a single character c.
HasChar(s, c) == \E i \in 1..Len(s) : s[i] = c
\* str.find(c) + 1: the first position of c in s, 0 when absent.
FirstIndex(s, c) ==
    IF HasChar(s, c) THEN CHOOSE i \in 1..Len(s) : s[i] = c /\ \A j \in 1..(i - 1) : s[j] # c
    ELSE 0
\* Positions of c in s, ascending.
RECURSIVE PositionsFrom(_, _, _)
PositionsFrom(s, c, i) ==
    IF i > Len(s) THEN <<>>
    ELSE IF s[i] = c THEN <<i>> \o PositionsFrom(s, c, i + 1)
    ELSE PositionsFrom(s, c, i + 1)
Positions(s, c) == PositionsFrom(s, c, 1)

\* s.split("=", 1) for s containing "=": <<before, after>>.
SplitOnce(s, c) ==
    LET i == FirstIndex(s, c)
    IN  <<SubSeq(s, 1, i - 1), SubSeq(s, i + 1, Len(s))>>

\* ------------------------------------------------------------- urljoin
\* '/'.join(url.split('/')[:3]): the text before the third "/", or all of it.
SchemeHost(url) ==
    LET p == Positions(url, "/")
    IN  IF Len(p) >= 3 THEN SubSeq(url, 1, p[3] - 1) ELSE url

\* urlsplit's scheme: the text before the first ":" when "://" follows it.
HasScheme(u) ==
    LET i == FirstIndex(u, ":")
    IN  i > 1 /\ Len(u) >= i + 2 /\ u[i + 1] = "/" /\ u[i + 2] = "/"
SchemeOf(u) == IF HasScheme(u) THEN SubSeq(u, 1, FirstIndex(u, ":") - 1) ELSE <<>>
\* The text after "scheme:" (or all of u when it has no scheme).
AfterScheme(u) == IF HasScheme(u) THEN SubSeq(u, FirstIndex(u, ":") + 1, Len(u)) ELSE u
\* urlsplit's netloc: after a leading "//", up to the next "/".
NetlocOf(u) ==
    LET r == AfterScheme(u)
    IN  IF Len(r) >= 2 /\ r[1] = "/" /\ r[2] = "/"
        THEN LET rest == SubSeq(r, 3, Len(r))
                 j == FirstIndex(rest, "/")
             IN  IF j = 0 THEN rest ELSE SubSeq(rest, 1, j - 1)
        ELSE <<>>
HasNetloc(u) ==
    LET r == AfterScheme(u) IN Len(r) >= 2 /\ r[1] = "/" /\ r[2] = "/"
\* urlsplit's path.
PathOf(u) ==
    LET r == AfterScheme(u)
    IN  IF HasNetloc(u) THEN SubSeq(r, 3 + Len(NetlocOf(u)), Len(r)) ELSE r
\* urlsplit raises ValueError("Invalid IPv6 URL") when exactly one of "[" and
\* "]" occurs in the netloc.
UrlsplitRaises(u) == HasChar(NetlocOf(u), "[") # HasChar(NetlocOf(u), "]")

\* The schemes of urllib.parse.uses_relative that the model's URLs use.
UsesRelative(scheme) == scheme = <<"h", "t", "t", "p">>

\* The directory of a path: up to and including its last "/".
DirOfPath(p) ==
    LET q == Positions(p, "/")
    IN  IF Len(q) = 0 THEN <<>> ELSE SubSeq(p, 1, q[Len(q)])

\* urllib.parse.urljoin(base, url) on URLs without "." segments, params,
\* queries and fragments: [raised, value].
Urljoin(base, link) ==
    IF base = <<>> THEN [raised |-> FALSE, value |-> link]
    ELSE IF link = <<>> THEN [raised |-> FALSE, value |-> base]
    ELSE IF UrlsplitRaises(base) \/ UrlsplitRaises(link) THEN [raised |-> TRUE, value |-> <<>>]
    ELSE LET bscheme == SchemeOf(base)
             scheme == IF HasScheme(link) THEN SchemeOf(link) ELSE bscheme
         IN  IF scheme # bscheme \/ ~UsesRelative(scheme)
             THEN [raised |-> FALSE, value |-> link]
             ELSE IF HasNetloc(link)
             THEN [raised |-> FALSE, value |-> scheme \o <<":">> \o AfterScheme(link)]
             ELSE LET origin == scheme \o <<":", "/", "/">> \o NetlocOf(base)
                      path == PathOf(link)
                  IN  IF path[1] = "/"
                      THEN [raised |-> FALSE, value |-> origin \o path]
                      ELSE [raised |-> FALSE,
                            value |-> origin
                                      \o (IF DirOfPath(PathOf(base)) = <<>> THEN <<"/">>
                                          ELSE DirOfPath(PathOf(base)))
                                      \o path]

\* ------------------------------------------------- urllib.robotparser
\* What the robots.txt request can answer.  kind "URLError": no answer
\* (DNS, connection, timeout, unknown URL type); "HTTPError": a status
\* urlopen raises for; "OK": a 200 answer with a body.  A body is a sequence
\* of lines: "ua*" is "User-agent: *", "uamoz" is "User-agent: Mozilla",
\* "disallow/" is "Disallow: /",
\* "allow/" is "Allow: /", "junk" is a line the parser does not understand;
\* decodable is FALSE for bytes that are not UTF-8.
RobotsBodies ==
    { <<>>, <<"ua*", "disallow/">>, <<"ua*", "allow/">>, <<"junk", "junk">>,
      <<"disallow/">>, <<"uamoz", "disallow/">>,
      <<"ua*", "disallow/", "uamoz", "allow/">> }
RobotsResponses ==
    { [kind |-> "URLError", code |-> 0, body |-> <<>>, decodable |-> TRUE] }
    \cup { [kind |-> "HTTPError", code |-> c, body |-> <<>>, decodable |-> TRUE] :
             c \in {401, 403, 404, 500} }
    \cup { [kind |-> "OK", code |-> 200, body |-> b, decodable |-> TRUE] : b \in RobotsBodies }
    \cup { [kind |-> "OK", code |-> 200, body |-> <<"junk">>, decodable |-> FALSE] }

\* can_fetch's default user_agent, "*".
DefaultAgent == <<"*">>
\* The User-Agent header of the page request, "Mozilla/5.0 (NewsScraperBot)".
HeaderAgent ==
    <<"M", "o", "z", "i", "l", "l", "a", "/", "5", ".", "0", " ", "(", 
      "N", "e", "w", "s", "S", "c", "r", "a", "p", "e", "r", "B", "o", "t", ")">>

\* The agent a User-agent line names: "*" or "Mozilla".
LineAgent(l) == IF l = "ua*" THEN <<"*">> ELSE <<"M", "o", "z", "i", "l", "l", "a">>
IsAgentLine(l) == l \in {"ua*", "uamoz"}
IsRuleLine(l) == l \in {"disallow/", "allow/"}

\* An Entry: its user agents and its rule lines, a rule line being TRUE
\* (Allow: /) or FALSE (Disallow: /).
NoEntry == [useragents |-> <<>>, rulelines |-> <<>>]
\* RobotFileParser._add_entry: the first entry naming "*" is the default
\* entry, later ones naming "*" are dropped, every other entry is appended.
AddEntry(st) ==
    IF \E n \in DOMAIN st.entry.useragents : st.entry.useragents[n] = <<"*">>
    THEN IF IsNone(st.default_entry) THEN [st EXCEPT !.default_entry = Some(st.entry)] ELSE st
    ELSE [st EXCEPT !.entries = Append(@, st.entry)]

\* RobotFileParser.parse(lines).  state 0: start, 1: a User-agent line was
\* seen, 2: a rule line was seen.  Rule lines before any User-agent line and
\* lines that are not understood are ignored; an entry without rule lines
\* at the end of the file is not recorded.
RECURSIVE RobotsParse(_, _)
RobotsParse(lines, st) ==
    IF lines = <<>> THEN (IF st.state = 2 THEN AddEntry(st) ELSE st)
    ELSE LET l == Head(lines)
             opened == IF st.state = 2 THEN [AddEntry(st) EXCEPT !.entry = NoEntry] ELSE st
             st2 == IF IsAgentLine(l)
                    THEN [opened EXCEPT !.entry.useragents = Append(@, LineAgent(l)),
                                        !.state = 1]
                    ELSE IF IsRuleLine(l) /\ st.state # 0
                    THEN [st EXCEPT !.entry.rulelines = Append(@, l = "allow/"), !.state = 2]
                    ELSE st
         IN  RobotsParse(Tail(lines), st2)

\* RobotFileParser() followed by read(): the parser's fields, or raised.
\* HTTPError 401/403 sets disallow_all, any other 4xx sets allow_all, other
\* HTTPErrors set nothing; every other exception of urlopen and the
\* UnicodeDecodeError of raw.decode("utf-8") propagate.
RobotsRead(resp) ==
    LET fresh == [raised |-> FALSE, disallow_all |-> FALSE, allow_all |-> FALSE,
                  last_checked |-> FALSE, entries |-> <<>>, default_entry |-> NoneV]
        parsed == RobotsParse(resp.body, [state |-> 0, entry |-> NoEntry, entries |-> <<>>,
                                          default_entry |-> NoneV])
    IN  IF resp.kind = "URLError" THEN [fresh EXCEPT !.raised = TRUE]
        ELSE IF resp.kind = "HTTPError"
        THEN IF resp.code \in {401, 403} THEN [fresh EXCEPT !.disallow_all = TRUE]
             ELSE IF resp.code >= 400 /\ resp.code < 500 THEN [fresh EXCEPT !.allow_all = TRUE]
             ELSE fresh
        ELSE IF ~resp.decodable THEN [fresh EXCEPT !.raised = TRUE]
        ELSE [fresh EXCEPT !.last_checked = TRUE,
                           !.entries = parsed.entries,
                           !.default_entry = parsed.default_entry]

\* Entry.applies_to(useragent): the name before "/" in lower case; an agent
\* "*" applies to everyone, another agent when it occurs in that name.
AppliesTo(entry, useragent) ==
    LET product == IF HasChar(useragent, "/")
                   THEN SubSeq(useragent, 1, FirstIndex(useragent, "/") - 1)
                   ELSE useragent
    IN  \E n \in DOMAIN entry.useragents :
            \/ entry.useragents[n] = <<"*">>
            \/ SubstringIn(Lower(entry.useragents[n]), Lower(product))
\* Entry.allowance(url): the first rule line counts (every rule line of the
\* model has the path "/"); without a rule line access is granted.
Allowance(entry) == IF entry.rulelines = <<>> THEN TRUE ELSE Head(entry.rulelines)

\* RobotFileParser.can_fetch(useragent, url): the first entry that applies
\* to the agent decides, then the default entry; without one access is
\* granted.
RobotsCanFetch(rp, useragent) ==
    LET hits == {n \in DOMAIN rp.entries : AppliesTo(rp.entries[n], useragent)}
        first == CHOOSE n \in hits : \A m \in hits : n <= m
    IN  IF rp.disallow_all THEN FALSE
        ELSE IF rp.allow_all THEN TRUE
        ELSE IF ~rp.last_checked THEN FALSE
        ELSE IF hits # {} THEN Allowance(rp.entries[first])
        ELSE IF ~IsNone(rp.default_entry) THEN Allowance(Val(rp.default_entry))
        ELSE TRUE

\* can_fetch(url, user_agent): read robots.txt and ask it; any exception
\* gives False.
CanFetchResult(resp, user_agent) ==
    LET rp == RobotsRead(resp)
    IN  IF rp.raised THEN FALSE ELSE RobotsCanFetch(rp, user_agent)
\* The user agents, of the two the program uses, that can_fetch would
\* answer True for.
PermittedAgents(resp) == {a \in {DefaultAgent, HeaderAgent} : CanFetchResult(resp, a)}

\* "robots.txt"
RobotsTxt == <<"r", "o", "b", "o", "t", "s", ".", "t", "x", "t">>
\* can_fetch's robots_url: urljoin(scheme-and-host of url, "robots.txt").
RobotsUrl(url) == Urljoin(SchemeHost(url), RobotsTxt)

\* ------------------------------------------------------------ the inputs
UrlE == <<"h", "t", "t", "p", ":", "/", "/", "e", "/", "t">>
UrlF == <<"h", "t", "t", "p", ":", "/", "/", "f", "/", "n">>
\* --sources tokens: "A=http://e/t", "B = http://f/n" and "x" (no "=").
TokA == <<"A", "=">> \o UrlE
TokB == <<"B", " ", "=", " ">> \o UrlF
TokNoEq == <<"x">>
Tokens == {TokA, TokB, TokNoEq}
SourceLists == UNION { [1..n -> Tokens] : n \in 1..MaxSources }

\* --keyword: not given, "", "a", "B".
Keywords == {NoneV, Some(<<>>), Some(<<"a">>), Some(<<"B">>)}
\* --format (argparse choices).
Formats == {"json", "csv"}

\* An <a> element: its text nodes' characters and its href attribute.
ExtractTexts == {<<>>, <<" ">>, <<"a">>, <<" ", "A", "b">>}
ExtractHrefs == {NoneV, Some(<<>>), Some(<<"/", "x">>), Some(<<"/", "/", "[">>)}
ExtractElements == [text : ExtractTexts, href : ExtractHrefs]
ExtractPages == UNION { [1..n -> ExtractElements] : n \in 0..MaxLinks }

\* The pages the sites of the pipeline runs answer with.
E1 == [text |-> <<"a">>, href |-> Some(<<"/", "x">>)]
E2 == [text |-> <<" ", "A", "b">>, href |-> Some(<<"y">>)]
ENoHref == [text |-> <<"b">>, href |-> NoneV]
EBad == [text |-> <<"a">>, href |-> Some(<<"/", "/", "[">>)]
PipelinePages == {<<>>, <<E1>>, <<E1, E2>>, <<ENoHref, E2>>, <<E1, EBad>>}

\* What requests.get(url, timeout=10) can do: raise (ConnectionError,
\* Timeout), or answer with a status and a body.  accepted is FALSE for
\* markup html.parser rejects (bs4 raises ParserRejectedMarkup).
PageResponses ==
    { [kind |-> k, status |-> 0, page |-> <<>>, accepted |-> TRUE] :
        k \in {"ConnectionError", "Timeout"} }
    \cup { [kind |-> "HTTP", status |-> c, page |-> <<>>, accepted |-> TRUE] : c \in {404, 500} }
    \cup { [kind |-> "HTTP", status |-> 200, page |-> p, accepted |-> TRUE] : p \in PipelinePages }
    \cup { [kind |-> "HTTP", status |-> 200, page |-> <<>>, accepted |-> FALSE] }

\* response.raise_for_status(): raises HTTPError for 4xx and 5xx.
RaiseForStatusRaises(resp) == resp.status >= 400 /\ resp.status < 600

\* ------------------------------------------------------------- the state
VARIABLES
    sources,        \* args.sources
    keyword,        \* args.keyword
    fmt,            \* args.format
    pc,             \* where the run is
    idx,            \* position of main's for loop in args.sources
    all_headlines,  \* main's aggregate
    name, url,      \* scrape_headlines' source_name and url
    robots,         \* can_fetch: what rp.read() got (NoneV outside can_fetch)
    allowed,        \* can_fetch's return value, as fetch_html tests it
    response,       \* fetch_html's response (NoneV before requests.get)
    soup,           \* scrape_headlines' soup (NoneV is None)
    slept,          \* time.sleep calls of the fetch_html call in progress
    policy,         \* per token: robots.txt retrievals, URL checked, decision
    page_get,       \* per token: page GETs sent, URL requested, whether one failed
    run,            \* per token: scrape_headlines calls, outcome, document, records returned
    save_calls,     \* calls of save_results
    saved,          \* the data save_results was given (NoneV: not called)
    fs,             \* the output's parent directory and file
    save_log,       \* the level of the message save_results logged ("none": no call)
    \* send_emails.py
    header,         \* the recipients file's field names
    rows,           \* the recipients file's rows, each a sequence of optional fields
    row_idx,        \* main's position in the rows
    recipient_email,
    body,           \* the personalised body, a sequence of text pieces
    attachment_path,
    retries,        \* send_email's retries argument
    attempt,        \* send_email's loop variable
    calls,          \* history: the send_email calls made, in order
    mail_pc         \* the control point of send_emails.py

vars == <<sources, keyword, fmt, pc, idx, all_headlines, name, url, robots, allowed,
          response, soup, slept, policy, page_get, run, save_calls, saved, fs, save_log,
          header, rows, row_idx, recipient_email, body, attachment_path, retries, attempt,
          calls, mail_pc>>

args == <<sources, keyword, fmt>>
fetch_locals == <<robots, allowed, response, slept>>
history == <<policy, page_get, run>>
persistence == <<save_calls, saved, fs, save_log>>
recipients == <<header, rows>>
send_locals == <<recipient_email, body, attachment_path, retries, attempt>>
mailer == <<recipients, row_idx, send_locals, calls, mail_pc>>

\* send_emails.py is not running.
MailerIdle ==
    /\ header = <<>> /\ rows = <<>>
    /\ row_idx = 1
    /\ recipient_email = NoneV /\ body = <<>> /\ attachment_path = "none"
    /\ retries = 0 /\ attempt = 0
    /\ calls = <<>>
    /\ mail_pc = "idle"

NoPolicy == [reads |-> 0, url |-> NoneV, agent |-> NoneV, permits |-> {}, decision |-> "none"]
NoPageGet == [gets |-> 0, url |-> NoneV, agent |-> NoneV, failed |-> FALSE]
NoRun == [calls |-> 0, outcome |-> "pending", page |-> NoneV, records |-> <<>>]

Init ==
    /\ sources \in SourceLists
    /\ keyword \in Keywords
    /\ fmt \in Formats
    /\ pc = "main_loop"
    /\ idx = 1
    /\ all_headlines = <<>>
    /\ name = <<>> /\ url = <<>>
    /\ robots = NoneV /\ allowed = FALSE /\ response = NoneV /\ soup = NoneV
    /\ slept = 0
    /\ policy = [i \in 1..Len(sources) |-> NoPolicy]
    /\ page_get = [i \in 1..Len(sources) |-> NoPageGet]
    /\ run = [i \in 1..Len(sources) |-> NoRun]
    /\ save_calls = 0
    /\ saved = NoneV
    /\ fs = [dir |-> FALSE, file |-> NoneV]
    /\ save_log = "none"
    /\ MailerIdle

\* --------------------------------------------------- scrape_headlines
\* item.get_text(strip=True)
GetText(item) == Strip(item.text)

\* The for loop of scrape_headlines over soup.select("a"): [raised, value],
\* raised when urljoin raises (nothing in scrape_headlines catches it).
RECURSIVE ExtractLoop(_, _, _, _, _)
ExtractLoop(source_name, page_url, kw, items, headlines) ==
    IF items = <<>> THEN [raised |-> FALSE, value |-> headlines]
    ELSE LET item == Head(items)
             title == GetText(item)
             link == item.href
         IN  IF title = <<>> \/ IsNone(link) \/ Val(link) = <<>>
             THEN ExtractLoop(source_name, page_url, kw, Tail(items), headlines)
             ELSE LET full_url == Urljoin(page_url, Val(link))
                  IN  IF full_url.raised THEN [raised |-> TRUE, value |-> <<>>]
                      ELSE IF /\ ~IsNone(kw)
                              /\ Val(kw) # <<>>
                              /\ ~SubstringIn(Lower(Val(kw)), Lower(title))
                      THEN ExtractLoop(source_name, page_url, kw, Tail(items), headlines)
                      ELSE ExtractLoop(source_name, page_url, kw, Tail(items),
                                       Append(headlines,
                                              [source |-> source_name, title |-> title,
                                               url |-> full_url.value, time |-> NoneV]))

\* scrape_headlines after fetch_html has returned sp.
ScrapeResult(source_name, page_url, kw, sp) ==
    IF IsNone(sp) THEN [raised |-> FALSE, value |-> <<>>]
    ELSE ExtractLoop(source_name, page_url, kw, Val(sp), <<>>)

\* A faulty variant of Extend: the new records are put in front.
ExtendFront(list, data) == data \o list
\* all_headlines.extend(data)
Extend(list, data) == list \o data

\* ---------------------------------------------------------------- json
\* The characters json treats specially.
Quote == "\""
Backslash == "\\"
Newline == "\n"

\* json's string escapes (ensure_ascii=False): \" \\ and \n; every other
\* character of the model's alphabet is written as it is.
EscapeChar(c) ==
    IF c = Quote THEN <<Backslash, Quote>>
    ELSE IF c = Backslash THEN <<Backslash, Backslash>>
    ELSE IF c = Newline THEN <<Backslash, "n">>
    ELSE <<c>>
RECURSIVE JsonEscape(_)
JsonEscape(s) == IF s = <<>> THEN <<>> ELSE EscapeChar(Head(s)) \o JsonEscape(Tail(s))
\* A faulty variant of JsonString: the characters are written unescaped.
JsonStringRaw(s) == <<Quote>> \o s \o <<Quote>>
\* A string as json.dump writes it.
JsonString(s) == <<Quote>> \o JsonEscape(s) \o <<Quote>>

KeySource == <<"s", "o", "u", "r", "c", "e">>
KeyTitle == <<"t", "i", "t", "l", "e">>
KeyUrl == <<"u", "r", "l">>
KeyTime == <<"t", "i", "m", "e">>
JsonNull == <<"n", "u", "l", "l">>

Indent(n) == [i \in 1..n |-> " "]
\* One "key": value line of an object at indent 4.
JsonMember(key, text, last) ==
    Indent(4) \o JsonString(key) \o <<":", " ">> \o text
    \o (IF last THEN <<>> ELSE <<",">>) \o <<Newline>>
\* A headline dict, keys in insertion order.
JsonObject(r) ==
    <<"{", Newline>>
    \o JsonMember(KeySource, JsonString(r.source), FALSE)
    \o JsonMember(KeyTitle, JsonString(r.title), FALSE)
    \o JsonMember(KeyUrl, JsonString(r.url), FALSE)
    \o JsonMember(KeyTime, IF IsNone(r.time) THEN JsonNull ELSE JsonString(Val(r.time)), TRUE)
    \o Indent(2) \o <<"}">>
RECURSIVE JsonItems(_)
JsonItems(data) ==
    IF data = <<>> THEN <<>>
    ELSE Indent(2) \o JsonObject(Head(data))
         \o (IF Len(data) > 1 THEN <<",">> ELSE <<>>) \o <<Newline>>
         \o JsonItems(Tail(data))
\* json.dump(data, f, ensure_ascii=False, indent=2): the text written.
JsonDump(data) ==
    IF data = <<>> THEN <<"[", "]">> ELSE <<"[", Newline>> \o JsonItems(data) \o <<"]">>

\* ------------------------------------------------------- save_results
\* The message save_results logs: info after a write, error otherwise.
SaveLog(f) == IF f \in {"json", "csv"} THEN "info" ELSE "error"

\* A faulty variant of SaveResults: a format that is not "csv" is written
\* as JSON.
SaveResultsDefaultJson(data, f, fsys) ==
    LET made == [fsys EXCEPT !.dir = TRUE]
    IN  IF f = "csv" THEN [made EXCEPT !.file = Some([format |-> "csv", content |-> data])]
        ELSE [made EXCEPT !.file = Some([format |-> "json", content |-> JsonDump(data)])]

\* save_results(data, output, fmt) on the file system fsys (the output
\* path is writable): the parent directory is made first, then the file is
\* written for "json" (the text of json.dump) and for "csv" (the rows).
SaveResults(data, f, fsys) ==
    LET made == [fsys EXCEPT !.dir = TRUE]
    IN  IF f = "json" THEN [made EXCEPT !.file = Some([format |-> "json", content |-> JsonDump(data)])]
        ELSE IF f = "csv" THEN [made EXCEPT !.file = Some([format |-> "csv", content |-> data])]
        ELSE made

\* ---------------------------------------------------------------- main
\* for source_entry in args.sources: a token without "=" is skipped.
MainLoopInvalid ==
    /\ pc = "main_loop"
    /\ idx <= Len(sources)
    /\ ~HasChar(sources[idx], "=")
    /\ run' = [run EXCEPT ![idx].outcome = "dropped"]
    /\ idx' = idx + 1
    /\ UNCHANGED <<mailer, args, pc, all_headlines, name, url, fetch_locals, soup, policy,
                   page_get, persistence>>

\* name, url = source_entry.split("=", 1); scrape_headlines(name.strip(),
\* url.strip(), args.keyword) is entered, and in it fetch_html and can_fetch.
MainLoopCall ==
    /\ pc = "main_loop"
    /\ idx <= Len(sources)
    /\ HasChar(sources[idx], "=")
    /\ LET parts == SplitOnce(sources[idx], "=")
       IN  /\ name' = Strip(parts[1])
           /\ url' = Strip(parts[2])
    /\ run' = [run EXCEPT ![idx].calls = @ + 1]
    /\ slept' = 0
    /\ soup' = NoneV
    /\ pc' = "can_fetch"
    /\ UNCHANGED <<mailer, args, idx, all_headlines, robots, allowed, response, policy, page_get,
                   persistence>>

\* The for loop is exhausted.
MainLoopEnd ==
    /\ pc = "main_loop"
    /\ idx > Len(sources)
    /\ pc' = "main_check"
    /\ UNCHANGED <<mailer, args, idx, all_headlines, name, url, fetch_locals, soup, history,
                   persistence>>

\* can_fetch(url): robots.txt is requested once; its answer, or the
\* exception handler, gives the decision.  The urljoin of line 27 is outside
\* the try: a ValueError there leaves can_fetch, fetch_html,
\* scrape_headlines and main.
CanFetch ==
    /\ pc = "can_fetch"
    /\ IF RobotsUrl(url).raised
       THEN /\ pc' = "crashed"
            /\ run' = [run EXCEPT ![idx].outcome = "raised"]
            /\ UNCHANGED <<robots, allowed, policy>>
       ELSE \E resp \in RobotsResponses :
              /\ robots' = Some(resp)
              /\ allowed' = CanFetchResult(resp, DefaultAgent)
              /\ policy' = [policy EXCEPT ![idx] =
                              [reads |-> @.reads + 1, url |-> Some(url),
                               agent |-> Some(DefaultAgent),
                               permits |-> PermittedAgents(resp),
                               decision |-> IF CanFetchResult(resp, DefaultAgent)
                                            THEN "allow" ELSE "deny"]]
              /\ pc' = "fetch_html"
              /\ UNCHANGED run
    /\ UNCHANGED <<mailer, args, idx, all_headlines, name, url, response, soup, slept, page_get,
                   persistence>>

\* A faulty variant of FetchHtmlSkip: the decision is logged and the request
\* is sent all the same.
FetchHtmlSkipStillGets ==
    /\ pc = "fetch_html"
    /\ ~allowed
    /\ robots' = NoneV
    /\ pc' = "requests_get"
    /\ UNCHANGED <<mailer, args, idx, all_headlines, name, url, allowed, response, soup, slept,
                   history, persistence>>

\* fetch_html: if not can_fetch(url): return None.
FetchHtmlSkip ==
    /\ pc = "fetch_html"
    /\ ~allowed
    /\ soup' = NoneV
    /\ robots' = NoneV
    /\ pc' = "scrape_headlines"
    /\ UNCHANGED <<mailer, args, idx, all_headlines, name, url, allowed, response, slept, history,
                   persistence>>

\* fetch_html: the policy allows; the try block is entered.
FetchHtmlTry ==
    /\ pc = "fetch_html"
    /\ allowed
    /\ robots' = NoneV
    /\ allowed' = FALSE
    /\ pc' = "requests_get"
    /\ UNCHANGED <<mailer, args, idx, all_headlines, name, url, response, soup, slept, history,
                   persistence>>

\* A faulty variant of RequestsGet: a failed request is sent once more.
RequestsGetRetry ==
    /\ pc = "requests_get"
    /\ \E resp \in PageResponses :
         LET fails == resp.kind # "HTTP" \/ RaiseForStatusRaises(resp)
         IN  /\ page_get' = [page_get EXCEPT ![idx] =
                               [gets |-> @.gets + 1, url |-> Some(url),
                                agent |-> Some(HeaderAgent), failed |-> fails]]
             /\ IF fails
                THEN /\ response' = NoneV
                     /\ soup' = NoneV
                     /\ pc' = IF page_get[idx].gets = 0 THEN "requests_get"
                              ELSE "scrape_headlines"
                ELSE /\ response' = Some(resp)
                     /\ soup' = soup
                     /\ pc' = "sleep"
    /\ UNCHANGED <<mailer, args, idx, all_headlines, name, url, robots, allowed, slept, policy, run,
                   persistence>>

\* requests.get(url, ...) and response.raise_for_status(): an exception of
\* either is caught and fetch_html returns None.
RequestsGet ==
    /\ pc = "requests_get"
    /\ \E resp \in PageResponses :
         LET fails == resp.kind # "HTTP" \/ RaiseForStatusRaises(resp)
         IN  /\ page_get' = [page_get EXCEPT ![idx] =
                               [gets |-> @.gets + 1, url |-> Some(url),
                                agent |-> Some(HeaderAgent), failed |-> fails]]
             /\ IF fails
                THEN /\ response' = NoneV
                     /\ soup' = NoneV
                     /\ pc' = "scrape_headlines"
                ELSE /\ response' = Some(resp)
                     /\ soup' = soup
                     /\ pc' = "sleep"
    /\ UNCHANGED <<mailer, args, idx, all_headlines, name, url, robots, allowed, slept, policy, run,
                   persistence>>

\* time.sleep(random.uniform(1, 3))
PolitenessSleep ==
    /\ pc = "sleep"
    /\ slept' = slept + 1
    /\ pc' = "parse"
    /\ UNCHANGED <<mailer, args, idx, all_headlines, name, url, robots, allowed, response, soup,
                   history, persistence>>

\* return BeautifulSoup(response.text, "html.parser"); an exception of the
\* parser is caught and fetch_html returns None.
ParseHtml ==
    /\ pc = "parse"
    /\ soup' = IF Val(response).accepted THEN Some(Val(response).page) ELSE NoneV
    /\ response' = NoneV
    /\ pc' = "scrape_headlines"
    /\ UNCHANGED <<mailer, args, idx, all_headlines, name, url, robots, allowed, slept, history,
                   persistence>>

\* How a source's run ended, from what fetch_html did.
OutcomeOf(i, sp) ==
    IF ~IsNone(sp) THEN "done"
    ELSE IF policy[i].decision = "deny" THEN "denied"
    ELSE "fetch_failed"

\* scrape_headlines returns (no soup: []; else what the loop collected) and
\* main extends all_headlines with it and goes to the next token.
ScrapeHeadlinesReturn ==
    /\ pc = "scrape_headlines"
    /\ LET r == ScrapeResult(name, url, keyword, soup)
       IN  /\ ~r.raised
           /\ all_headlines' = Extend(all_headlines, r.value)
           /\ run' = [run EXCEPT ![idx].outcome = OutcomeOf(idx, soup),
                                 ![idx].page = soup,
                                 ![idx].records = r.value]
    /\ idx' = idx + 1
    /\ name' = <<>> /\ url' = <<>>
    /\ soup' = NoneV
    /\ slept' = 0
    /\ pc' = "main_loop"
    /\ UNCHANGED <<mailer, args, robots, allowed, response, policy, page_get, persistence>>

\* The loop of scrape_headlines raises: neither scrape_headlines nor main
\* catches it, the run ends with a traceback.
ScrapeHeadlinesRaise ==
    /\ pc = "scrape_headlines"
    /\ ScrapeResult(name, url, keyword, soup).raised
    /\ run' = [run EXCEPT ![idx].outcome = "raised"]
    /\ pc' = "crashed"
    /\ UNCHANGED <<mailer, args, idx, all_headlines, name, url, fetch_locals, soup, policy,
                   page_get, persistence>>

\* A faulty variant of MainNoHeadlines: the empty aggregate is saved.
MainNoHeadlinesSaves ==
    /\ pc = "main_check"
    /\ all_headlines = <<>>
    /\ save_calls' = save_calls + 1
    /\ saved' = Some(all_headlines)
    /\ fs' = SaveResults(all_headlines, fmt, fs)
    /\ save_log' = SaveLog(fmt)
    /\ pc' = "done"
    /\ UNCHANGED <<mailer, args, idx, all_headlines, name, url, fetch_locals, soup, history>>

\* if not all_headlines: warning, return.
MainNoHeadlines ==
    /\ pc = "main_check"
    /\ all_headlines = <<>>
    /\ pc' = "done"
    /\ UNCHANGED <<mailer, args, idx, all_headlines, name, url, fetch_locals, soup, history,
                   persistence>>

\* save_results(all_headlines, Path(args.output), args.format)
MainSave ==
    /\ pc = "main_check"
    /\ all_headlines # <<>>
    /\ save_calls' = save_calls + 1
    /\ saved' = Some(all_headlines)
    /\ fs' = SaveResults(all_headlines, fmt, fs)
    /\ save_log' = SaveLog(fmt)
    /\ pc' = "done"
    /\ UNCHANGED <<mailer, args, idx, all_headlines, name, url, fetch_locals, soup, history>>

Next ==
    \/ MainLoopInvalid
    \/ MainLoopCall
    \/ MainLoopEnd
    \/ CanFetch
    \/ FetchHtmlSkip
    \/ FetchHtmlTry
    \/ RequestsGet
    \/ PolitenessSleep
    \/ ParseHtml
    \/ ScrapeHeadlinesReturn
    \/ ScrapeHeadlinesRaise
    \/ MainNoHeadlines
    \/ MainSave

Spec == Init /\ [][Next]_vars

\* ------------------------------------- scrape_headlines on its own inputs
\* fetch_html has just returned a document for the first token "A=http://e/t":
\* the policy allowed, the GET succeeded, the delay was taken.
InitExtract ==
    /\ sources = <<TokA>>
    /\ keyword \in Keywords
    /\ fmt = "json"
    /\ pc = "scrape_headlines"
    /\ idx = 1
    /\ all_headlines = <<>>
    /\ name = <<"A">> /\ url = UrlE
    /\ robots = NoneV /\ allowed = FALSE /\ response = NoneV
    /\ soup \in {Some(p) : p \in ExtractPages}
    /\ slept = 1
    /\ policy = [i \in {1} |-> [reads |-> 1, url |-> Some(UrlE), agent |-> Some(DefaultAgent),
                                permits |-> {DefaultAgent, HeaderAgent},
                                decision |-> "allow"]]
    /\ page_get = [i \in {1} |-> [gets |-> 1, url |-> Some(UrlE), agent |-> Some(HeaderAgent),
                                  failed |-> FALSE]]
    /\ run = [i \in {1} |-> [calls |-> 1, outcome |-> "pending", page |-> NoneV,
                             records |-> <<>>]]
    /\ save_calls = 0
    /\ saved = NoneV
    /\ fs = [dir |-> FALSE, file |-> NoneV]
    /\ save_log = "none"
    /\ MailerIdle

NextExtract == ScrapeHeadlinesReturn \/ ScrapeHeadlinesRaise

SpecExtract == InitExtract /\ [][NextExtract]_vars

\* -------------------------------------------- save_results on its own inputs
\* The formats save_results may be called with: the two it supports and one
\* it does not.
SaveFormats == {"json", "csv", "xml"}
\* Headline records: titles with the characters JSON escapes, a record with
\* a time.
SaveTitles == {<<"a">>, <<"q", Quote, "b">>, <<Backslash, "n">>, <<"x", Newline>>}
SaveRecords ==
    {[source |-> <<"A">>, title |-> t, url |-> <<"u">>, time |-> NoneV] : t \in SaveTitles}
    \cup {[source |-> <<"B", Quote>>, title |-> <<"a">>, url |-> <<"u", Backslash>>,
           time |-> Some(<<"9">>)]}
RECURSIVE SeqsUpTo(_, _)
SeqsUpTo(S, n) ==
    IF n = 0 THEN {<<>>}
    ELSE LET shorter == SeqsUpTo(S, n - 1)
         IN  shorter \cup {Append(q, x) : q \in shorter, x \in S}
SaveData == SeqsUpTo(SaveRecords, MaxRecords)
\* The output path before the call: no parent directory, an empty parent
\* directory, or a file already at the path.
OldFile == [format |-> "old", content |-> <<>>]
SaveFileSystems ==
    {[dir |-> FALSE, file |-> NoneV], [dir |-> TRUE, file |-> NoneV],
     [dir |-> TRUE, file |-> Some(OldFile)]}

InitSave ==
    /\ sources = <<>>
    /\ keyword = NoneV
    /\ fmt \in SaveFormats
    /\ pc = "save_results"
    /\ idx = 1
    /\ all_headlines \in SaveData
    /\ name = <<>> /\ url = <<>>
    /\ robots = NoneV /\ allowed = FALSE /\ response = NoneV
    /\ soup = NoneV
    /\ slept = 0
    /\ policy = <<>>
    /\ page_get = <<>>
    /\ run = <<>>
    /\ save_calls = 0
    /\ saved = NoneV
    /\ fs \in SaveFileSystems
    /\ save_log = "none"
    /\ MailerIdle

\* save_results(all_headlines, output, fmt) called and returned.
SaveResultsCall ==
    /\ pc = "save_results"
    /\ save_calls' = save_calls + 1
    /\ saved' = Some(all_headlines)
    /\ fs' = SaveResults(all_headlines, fmt, fs)
    /\ save_log' = SaveLog(fmt)
    /\ pc' = "saved"
    /\ UNCHANGED <<mailer, args, idx, all_headlines, name, url, fetch_locals, soup, history>>

NextSave == SaveResultsCall

SpecSave == InitSave /\ [][NextSave]_vars

\* ------------------------------------------------------- send_emails.py
\* news_scraper.py is not running.
ScraperIdle ==
    /\ sources = <<>> /\ keyword = NoneV /\ fmt = "json"
    /\ pc = "idle"
    /\ idx = 1
    /\ all_headlines = <<>>
    /\ name = <<>> /\ url = <<>>
    /\ robots = NoneV /\ allowed = FALSE /\ response = NoneV
    /\ soup = NoneV
    /\ slept = 0
    /\ policy = <<>> /\ page_get = <<>> /\ run = <<>>
    /\ save_calls = 0 /\ saved = NoneV
    /\ fs = [dir |-> FALSE, file |-> NoneV]
    /\ save_log = "none"

\* send_email's default for retries.
DefaultRetries == 3

\* The recipients file as csv.DictReader gives it: the field names of the
\* first line, and per row one optional value per field name (None where
\* the row is shorter than the header).
Headers == {<<"email", "name">>, <<"email">>}
Emails == {NoneV, Some("a@x")}
Names == {NoneV, Some("Ann")}
RowsOf(h) == IF Len(h) = 2 THEN {<<e, n>> : e \in Emails, n \in Names}
             ELSE {<<e>> : e \in Emails}
RecipientFiles ==
    UNION {{[header |-> h, rows |-> r] : r \in SeqsUpTo(RowsOf(h), MaxRows)} : h \in Headers}

\* row.get(key, default): the field's value, the default for a key the
\* header does not have.
RowGet(h, row, key, default) ==
    IF \E k \in DOMAIN h : h[k] = key
    THEN row[CHOOSE k \in DOMAIN h : h[k] = key]
    ELSE default

\* The text of the --body file, "Hi {name}!", in pieces.
BodyTemplate == <<"Hi ", "{name}", "!">>
\* body_template.replace("{name}", name): [raised, value]; str.replace
\* raises TypeError for a name that is None.
Replace(template, new) ==
    IF IsNone(new) THEN [raised |-> TRUE, value |-> <<>>]
    ELSE [raised |-> FALSE,
          value |-> [k \in DOMAIN template |->
                       IF template[k] = "{name}" THEN Val(new) ELSE template[k]]]

\* A send_email call that has just been entered.
NewCall(r) == [row |-> r, outcomes |-> <<>>, waits |-> <<>>, result |-> "running"]
\* The call in progress, or the last one made.
Last == Len(calls)

\* A faulty variant of AttemptSucceeds: the loop goes on after a success.
AttemptSucceedsGoesOn ==
    /\ mail_pc = "attempt"
    /\ attempt <= retries
    /\ ~IsNone(recipient_email)
    /\ calls' = [calls EXCEPT ![Last].outcomes = Append(@, TRUE)]
    /\ attempt' = attempt + 1
    /\ UNCHANGED <<recipients, row_idx, recipient_email, body, attachment_path, retries,
                   mail_pc>>
    /\ UNCHANGED <<args, pc, idx, all_headlines, name, url, fetch_locals, soup, history,
                   persistence>>

\* send_email: an attempt of the for loop goes through (message built, login,
\* send_message): return True.  SMTP refuses a message without a recipient.
AttemptSucceeds ==
    /\ mail_pc = "attempt"
    /\ attempt <= retries
    /\ ~IsNone(recipient_email)
    /\ calls' = [calls EXCEPT ![Last].outcomes = Append(@, TRUE), ![Last].result = "True"]
    /\ mail_pc' = "returned"
    /\ UNCHANGED <<recipients, row_idx, recipient_email, body, attachment_path, retries,
                   attempt>>
    /\ UNCHANGED <<args, pc, idx, all_headlines, name, url, fetch_locals, soup, history,
                   persistence>>

\* send_email: something in the try block raises an Exception; the handler
\* logs a warning, sleeps 2 * attempt and the loop goes on.
AttemptFails ==
    /\ mail_pc = "attempt"
    /\ attempt <= retries
    /\ calls' = [calls EXCEPT ![Last].outcomes = Append(@, FALSE),
                              ![Last].waits = Append(@, 2 * attempt)]
    /\ attempt' = attempt + 1
    /\ UNCHANGED <<recipients, row_idx, recipient_email, body, attachment_path, retries,
                   mail_pc>>
    /\ UNCHANGED <<args, pc, idx, all_headlines, name, url, fetch_locals, soup, history,
                   persistence>>

\* send_email: range(1, retries + 1) is exhausted: log the error, return False.
SendEmailGivesUp ==
    /\ mail_pc = "attempt"
    /\ attempt > retries
    /\ calls' = [calls EXCEPT ![Last].result = "False"]
    /\ mail_pc' = "returned"
    /\ UNCHANGED <<recipients, row_idx, recipient_email, body, attachment_path, retries,
                   attempt>>
    /\ UNCHANGED <<args, pc, idx, all_headlines, name, url, fetch_locals, soup, history,
                   persistence>>

\* main: the next row; its name is None and body_template.replace raises
\* TypeError, which nothing in main catches.
MailRowRaises ==
    /\ mail_pc = "rows"
    /\ row_idx <= Len(rows)
    /\ Replace(BodyTemplate, RowGet(header, rows[row_idx], "name", Some("there"))).raised
    /\ recipient_email' = RowGet(header, rows[row_idx], "email", NoneV)
    /\ mail_pc' = "crashed"
    /\ UNCHANGED <<recipients, row_idx, body, attachment_path, retries, attempt, calls>>
    /\ UNCHANGED <<args, pc, idx, all_headlines, name, url, fetch_locals, soup, history,
                   persistence>>

\* main: the next row; the body is personalised and send_email is called
\* with the default retries.
MailRowCall ==
    /\ mail_pc = "rows"
    /\ row_idx <= Len(rows)
    /\ LET b == Replace(BodyTemplate, RowGet(header, rows[row_idx], "name", Some("there")))
       IN  /\ ~b.raised
           /\ body' = b.value
    /\ recipient_email' = RowGet(header, rows[row_idx], "email", NoneV)
    /\ retries' = DefaultRetries
    /\ attempt' = 1
    /\ calls' = Append(calls, NewCall(row_idx))
    /\ mail_pc' = "attempt"
    /\ UNCHANGED <<recipients, row_idx, attachment_path>>
    /\ UNCHANGED <<args, pc, idx, all_headlines, name, url, fetch_locals, soup, history,
                   persistence>>

\* main: send_email has returned (a False is logged); on to the next row.
MailRowDone ==
    /\ mail_pc = "returned"
    /\ row_idx' = row_idx + 1
    /\ recipient_email' = NoneV
    /\ body' = <<>>
    /\ attempt' = 0
    /\ mail_pc' = "rows"
    /\ UNCHANGED <<recipients, attachment_path, retries, calls>>
    /\ UNCHANGED <<args, pc, idx, all_headlines, name, url, fetch_locals, soup, history,
                   persistence>>

\* main: the reader is exhausted.
MailEnd ==
    /\ mail_pc = "rows"
    /\ row_idx > Len(rows)
    /\ mail_pc' = "done"
    /\ UNCHANGED <<recipients, row_idx, send_locals, calls>>
    /\ UNCHANGED <<args, pc, idx, all_headlines, name, url, fetch_locals, soup, history,
                   persistence>>

InitMail ==
    /\ ScraperIdle
    /\ \E f \in RecipientFiles : header = f.header /\ rows = f.rows
    /\ row_idx = 1
    /\ recipient_email = NoneV /\ body = <<>> /\ attachment_path = "none"
    /\ retries = DefaultRetries /\ attempt = 0
    /\ calls = <<>>
    /\ mail_pc = "rows"

NextMail ==
    \/ MailRowRaises
    \/ MailRowCall
    \/ AttemptSucceeds
    \/ AttemptFails
    \/ SendEmailGivesUp
    \/ MailRowDone
    \/ MailEnd

SpecMail == InitMail /\ [][NextMail]_vars

\* ---------------------------------------------- send_email on its own inputs
\* The attachment argument: none, a path that does not exist, a file.
Attachments == {"none", "missing", "file"}
\* send_email(sender, password, recipient_email, subject, body,
\* attachment_path, retries) has just been entered.
InitSendEmail ==
    /\ ScraperIdle
    /\ header = <<"email", "name">>
    /\ \E e \in Emails : rows = <<<<e, Some("Ann")>>>> /\ recipient_email = e
    /\ row_idx = 1
    /\ body = Replace(BodyTemplate, Some("Ann")).value
    /\ attachment_path \in Attachments
    /\ retries \in 0..MaxRetries
    /\ attempt = 1
    /\ calls = <<NewCall(1)>>
    /\ mail_pc = "attempt"

NextSendEmail == AttemptSucceeds \/ AttemptFails \/ SendEmailGivesUp

SpecSendEmail == InitSendEmail /\ [][NextSendEmail]_vars

\* ================================================================ claims
Indices == DOMAIN run
ValidToken(i) == HasChar(sources[i], "=")

\* C1: a source whose policy decision is deny never has its page requested:
\* fetch_html returns None before requests.get, and every page GET follows
\* a policy check of the same URL that returned allow.
C1_NoGetWithoutAllow ==
    /\ \A i \in Indices :
         /\ policy[i].decision = "deny" => page_get[i].gets = 0
         /\ page_get[i].gets > 0 =>
              /\ policy[i].decision = "allow"
              /\ policy[i].url = page_get[i].url
    /\ (pc = "scrape_headlines" /\ policy[idx].decision = "deny") => IsNone(soup)
\* A denied source has been skipped and another source's page was requested.
C1_Witness ==
    \E i, j \in Indices :
        /\ run[i].outcome = "denied"
        /\ page_get[i].gets = 0
        /\ page_get[j].gets = 1

\* The robots.txt retrieval or its parsing failed: no answer, a status other
\* than 200, bytes that do not decode, or lines that are not robots.txt lines.
PolicyFetchFailed(resp) ==
    \/ resp.kind # "OK"
    \/ ~resp.decodable
    \/ \E n \in DOMAIN resp.body : resp.body[n] = "junk"

\* C2: whenever retrieving or parsing robots.txt fails in any way (network
\* failure, malformed file, non-200 response), can_fetch returns False.
C2_PolicyFailureDenies ==
    pc = "fetch_html" => (PolicyFetchFailed(Val(robots)) => ~allowed)

\* The records of tokens 1..i as scrape_headlines returned them, in token order.
RECURSIVE ConcatRecords(_)
ConcatRecords(i) == IF i = 0 THEN <<>> ELSE ConcatRecords(i - 1) \o run[i].records

\* a is b with some positions left out, the order kept.
RECURSIVE IsSubsequence(_, _)
IsSubsequence(a, b) ==
    IF a = <<>> THEN TRUE
    ELSE IF b = <<>> THEN FALSE
    ELSE IF Head(a) = Head(b) THEN IsSubsequence(Tail(a), Tail(b))
    ELSE IsSubsequence(a, Tail(b))

\* C3: the aggregate, and what save_results is given, is the concatenation
\* of the sources' record sequences in the order of the tokens, each
\* source's records in the order of its document.
C3_AggregateIsConcatenation ==
    /\ all_headlines = ConcatRecords(Len(sources))
    /\ ~IsNone(saved) => Val(saved) = ConcatRecords(Len(sources))
    /\ \A i \in Indices :
         ~IsNone(run[i].page) =>
            IsSubsequence([k \in DOMAIN run[i].records |-> run[i].records[k].title],
                          [k \in DOMAIN Val(run[i].page) |-> Strip(Val(run[i].page)[k].text)])
\* Sources [A, B] gave two records and one record, and they were saved.
C3_Witness ==
    /\ ~IsNone(saved)
    /\ Len(sources) = 2
    /\ Len(run[1].records) = 2
    /\ Len(run[2].records) = 1
    /\ run[1].records[1].title # run[1].records[2].title
    /\ run[1].records[1].source # run[2].records[1].source

\* C4: with an empty aggregate after all sources save_results is never
\* called and no directory or file is made; save_results is called once
\* exactly when the aggregate is not empty.
C4_SaveIffNonEmpty ==
    /\ save_calls <= 1
    /\ save_calls = 1 => all_headlines # <<>>
    /\ all_headlines = <<>> => (save_calls = 0 /\ ~fs.dir /\ IsNone(fs.file))
    /\ pc = "done" => (save_calls = 1 <=> all_headlines # <<>>)
\* A run ended with nothing saved, a source having been denied.
C4_Witness ==
    /\ pc = "done"
    /\ all_headlines = <<>>
    /\ save_calls = 0
    /\ \E i \in Indices : run[i].outcome = "denied"

\* k occurs in t, letter case ignored.
CaseInsensitiveSubstring(k, t) ==
    \E i \in 0..(Len(t) - Len(k)) :
        \A j \in 1..Len(k) : LowerChar(t[i + j]) = LowerChar(k[j])
\* The keyword filter keeps a title: no keyword, an empty one, or one that
\* occurs in the title.
KeywordKeeps(kw, title) ==
    IsNone(kw) \/ Val(kw) = <<>> \/ CaseInsensitiveSubstring(Val(kw), title)
\* The element has a non-empty trimmed text and a non-empty href.
HasTitleAndHref(e) == Strip(e.text) # <<>> /\ ~IsNone(e.href) /\ Val(e.href) # <<>>

\* C5: every record scrape_headlines emits has a non-empty title and url;
\* an element with empty trimmed text or absent or empty href gives no
\* record, every other element the keyword filter keeps gives exactly one.
C5_OneRecordPerCompleteElement ==
    [][(pc = "scrape_headlines" /\ ~IsNone(soup)) =>
         LET page == Val(soup)
             kept == {k \in DOMAIN page :
                        HasTitleAndHref(page[k]) /\ KeywordKeeps(keyword, Strip(page[k].text))}
         IN  /\ Len(run'[idx].records) = Cardinality(kept)
             /\ \A n \in DOMAIN run'[idx].records :
                  /\ run'[idx].records[n].title # <<>>
                  /\ run'[idx].records[n].url # <<>>]_vars

\* C6: with a non-empty keyword an element with title and href gives a
\* record exactly when the keyword occurs in the title, case ignored; with
\* no keyword or an empty one the filter drops nothing.
C6_KeywordFilter ==
    [][(pc = "scrape_headlines" /\ ~IsNone(soup)) =>
         \A k \in DOMAIN Val(soup) :
            LET e == Val(soup)[k]
                title == Strip(e.text)
                yields == \E n \in DOMAIN run'[idx].records :
                             run'[idx].records[n].title = title
            IN  HasTitleAndHref(e) =>
                  IF ~IsNone(keyword) /\ Val(keyword) # <<>>
                  THEN yields <=> CaseInsensitiveSubstring(Val(keyword), title)
                  ELSE pc' = "main_loop" => yields]_vars

\* C7: a failure while processing one source never raises out of the run,
\* and every valid source after it is still processed.
C7_SourceFailureIsolated ==
    /\ pc # "crashed"
    /\ pc \in {"main_check", "done", "crashed"} =>
         \A i \in Indices : ValidToken(i) => run[i].calls = 1

\* C8: time.sleep is called once in every fetch_html call that returns a
\* document and never in a call that returns None.
C8_SleepOncePerDocument ==
    pc = "scrape_headlines" => slept = (IF IsNone(soup) THEN 0 ELSE 1)

\* C9: per source at most one robots.txt retrieval and at most one page
\* GET; after a failed GET the source gives no records and the loop goes on
\* to the next token.
C9_NoRetry ==
    \A i \in Indices :
        /\ policy[i].reads <= 1
        /\ page_get[i].gets <= 1
        /\ page_get[i].failed =>
             \/ (idx = i /\ pc = "scrape_headlines" /\ IsNone(soup))
             \/ (idx > i /\ run[i].outcome = "fetch_failed" /\ run[i].records = <<>>)
\* A page GET failed and the next source was processed after it.
C9_Witness ==
    \E i, j \in Indices :
        /\ page_get[i].failed
        /\ j > i
        /\ run[j].outcome = "done"

\* C10: a token without "=" is dropped before any policy check or fetch,
\* and every token with "=" is processed exactly once: the number of
\* sources processed is the number of tokens less those without "=".
C10_TokensProcessedOnce ==
    /\ \A i \in Indices :
         ~ValidToken(i) => (run[i].calls = 0 /\ policy[i].reads = 0 /\ page_get[i].gets = 0)
    /\ \A i \in Indices : run[i].calls <= 1
    /\ pc \in {"done", "crashed"} =>
         Cardinality({i \in Indices : run[i].calls = 1})
           = Len(sources) - Cardinality({i \in Indices : ~ValidToken(i)})

\* C11 as stated: save_results with a format other than "json" and "csv"
\* logs an error, returns, writes no output file and leaves the file system
\* as it was before the call.
C11_UnsupportedFormatLeavesFileSystem ==
    [][(pc = "save_results" /\ fmt \notin {"json", "csv"}) =>
         /\ pc' = "saved"
         /\ save_log' = "error"
         /\ fs' = fs]_vars
\* C11: save_results with a format other than "json" and "csv" logs an
\* error, returns and writes no output file: the file at the output path is
\* what it was before the call, and the only change is that the output's
\* parent directory exists afterwards.
C11_UnsupportedFormatWritesNoFile ==
    [][(pc = "save_results" /\ fmt \notin {"json", "csv"}) =>
         /\ pc' = "saved"
         /\ save_log' = "error"
         /\ fs'.file = fs.file
         /\ fs'.dir]_vars
\* save_results returned from a call with format "xml" where the parent
\* directory had been missing: there is no file and the directory exists.
C11_Witness ==
    /\ pc = "saved"
    /\ fmt = "xml"
    /\ save_log = "error"
    /\ IsNone(fs.file)
    /\ fs.dir
    /\ Val(saved) # <<>>

\* json.load of a text: [ok, value, pos], value a sequence of objects, an
\* object a sequence of [key, val], val a string or null.
JsonFail == [ok |-> FALSE, value |-> <<>>, pos |-> 0]
At(t, p) == IF p \in 1..Len(t) THEN t[p] ELSE ""
RECURSIVE SkipWs(_, _)
SkipWs(t, p) == IF At(t, p) \in {" ", Newline} THEN SkipWs(t, p + 1) ELSE p
\* The string whose opening quote is just before p.
RECURSIVE ScanString(_, _, _)
ScanString(t, p, acc) ==
    LET c == At(t, p)
    IN  IF p > Len(t) \/ c = Newline THEN JsonFail
        ELSE IF c = Quote THEN [ok |-> TRUE, value |-> acc, pos |-> p + 1]
        ELSE IF c = Backslash
        THEN LET e == At(t, p + 1)
             IN  IF e = Quote THEN ScanString(t, p + 2, Append(acc, Quote))
                 ELSE IF e = Backslash THEN ScanString(t, p + 2, Append(acc, Backslash))
                 ELSE IF e = "n" THEN ScanString(t, p + 2, Append(acc, Newline))
                 ELSE JsonFail
        ELSE ScanString(t, p + 1, Append(acc, c))
ParseValue(t, p) ==
    IF At(t, p) = Quote
    THEN LET r == ScanString(t, p + 1, <<>>)
         IN  IF r.ok THEN [ok |-> TRUE, value |-> [null |-> FALSE, s |-> r.value], pos |-> r.pos]
             ELSE JsonFail
    ELSE IF p + 3 <= Len(t) /\ SubSeq(t, p, p + 3) = JsonNull
    THEN [ok |-> TRUE, value |-> [null |-> TRUE, s |-> <<>>], pos |-> p + 4]
    ELSE JsonFail
\* The members of an object, p at the quote of the next key.
RECURSIVE ParseMembers(_, _, _)
ParseMembers(t, p, acc) ==
    IF At(t, p) # Quote THEN JsonFail
    ELSE LET k == ScanString(t, p + 1, <<>>)
             c == SkipWs(t, k.pos)
             v == ParseValue(t, SkipWs(t, c + 1))
             e == SkipWs(t, v.pos)
             more == Append(acc, [key |-> k.value, val |-> v.value])
         IN  IF ~k.ok THEN JsonFail
             ELSE IF At(t, c) # ":" THEN JsonFail
             ELSE IF ~v.ok THEN JsonFail
             ELSE IF At(t, e) = "," THEN ParseMembers(t, SkipWs(t, e + 1), more)
             ELSE IF At(t, e) = "}" THEN [ok |-> TRUE, value |-> more, pos |-> e + 1]
             ELSE JsonFail
ParseObject(t, p) ==
    IF At(t, p) # "{" THEN JsonFail
    ELSE LET q == SkipWs(t, p + 1)
         IN  IF At(t, q) = "}" THEN [ok |-> TRUE, value |-> <<>>, pos |-> q + 1]
             ELSE ParseMembers(t, q, <<>>)
\* The items of the array, p at the next object.
RECURSIVE ParseItems(_, _, _)
ParseItems(t, p, acc) ==
    LET o == ParseObject(t, p)
        e == SkipWs(t, o.pos)
        more == Append(acc, o.value)
    IN  IF ~o.ok THEN JsonFail
        ELSE IF At(t, e) = "," THEN ParseItems(t, SkipWs(t, e + 1), more)
        ELSE IF At(t, e) = "]" THEN [ok |-> TRUE, value |-> more, pos |-> e + 1]
        ELSE JsonFail
JsonLoad(t) ==
    LET p == SkipWs(t, 1)
        q == SkipWs(t, p + 1)
        r == IF At(t, q) = "]" THEN [ok |-> TRUE, value |-> <<>>, pos |-> q + 1]
             ELSE ParseItems(t, q, <<>>)
    IN  IF At(t, p) # "[" THEN JsonFail
        ELSE IF r.ok /\ SkipWs(t, r.pos) = Len(t) + 1 THEN r
        ELSE JsonFail
\* The object has the key with the string s as its value.
HasString(obj, key, s) ==
    /\ \E n \in DOMAIN obj : obj[n].key = key
    /\ \A n \in DOMAIN obj : obj[n].key = key => obj[n].val = [null |-> FALSE, s |-> s]

\* C12: the file save_results wrote for N records as JSON parses back to
\* exactly N objects, in the order of the records, whose source, title and
\* url equal those of the records.
C12_JsonRoundTrip ==
    (pc = "saved" /\ fmt = "json") =>
        LET data == Val(saved)
            back == JsonLoad(Val(fs.file).content)
        IN  /\ back.ok
            /\ Len(back.value) = Len(data)
            /\ \A n \in DOMAIN data :
                 /\ HasString(back.value[n], KeySource, data[n].source)
                 /\ HasString(back.value[n], KeyTitle, data[n].title)
                 /\ HasString(back.value[n], KeyUrl, data[n].url)
\* Two different records, one with a quote in its title and one with a
\* newline, were saved as JSON.
C12_Witness ==
    /\ pc = "saved"
    /\ fmt = "json"
    /\ Len(Val(saved)) = 2
    /\ HasChar(Val(saved)[1].title, Quote)
    /\ HasChar(Val(saved)[2].title, Newline)
    /\ ~IsNone(fs.file)

\* C13: a page GET is sent only when the site's policy permits the
\* user-agent the GET identifies itself with: the user-agent given to the
\* policy check of a URL is the user-agent sent in the request headers for
\* that URL.
C13_PolicyCheckedForHeaderAgent ==
    \A i \in Indices :
        page_get[i].gets > 0 =>
            /\ Val(page_get[i].agent) \in policy[i].permits
            /\ policy[i].agent = page_get[i].agent

\* The state of source i in the machine START, POLICY_CHECK, DENIED, FETCH,
\* FETCH_FAILED, EXTRACT, DONE; "RAISED" is where an exception left the
\* source's processing.
Phase(i) ==
    IF run[i].outcome = "denied" THEN "DENIED"
    ELSE IF run[i].outcome = "fetch_failed" THEN "FETCH_FAILED"
    ELSE IF run[i].outcome = "done" THEN "DONE"
    ELSE IF run[i].outcome = "raised" THEN "RAISED"
    ELSE IF run[i].calls = 0 THEN "START"
    ELSE IF pc \in {"can_fetch", "fetch_html"} THEN "POLICY_CHECK"
    ELSE IF pc \in {"requests_get", "sleep", "parse"} THEN "FETCH"
    ELSE IF ~IsNone(soup) THEN "EXTRACT"
    ELSE IF policy[i].decision = "deny" THEN "DENIED"
    ELSE "FETCH_FAILED"
Transitions ==
    {<<"START", "POLICY_CHECK">>, <<"POLICY_CHECK", "DENIED">>, <<"POLICY_CHECK", "FETCH">>,
     <<"FETCH", "FETCH_FAILED">>, <<"FETCH", "EXTRACT">>, <<"EXTRACT", "DONE">>}
TerminalOutcomes == {"DENIED", "FETCH_FAILED", "DONE"}

\* C14: every source moves START -> POLICY_CHECK -> {DENIED | FETCH} ->
\* {FETCH_FAILED | EXTRACT} -> DONE and by no other transition, and when
\* the run has ended every valid source is at exactly one of the terminal
\* outcomes DENIED, FETCH_FAILED, DONE.
C14_StateMachineToTerminalOutcome ==
    /\ [][\A i \in Indices :
            ValidToken(i) => (Phase(i)' = Phase(i) \/ <<Phase(i), Phase(i)'>> \in Transitions)]_vars
    /\ [](pc \in {"done", "crashed"} =>
            \A i \in Indices : ValidToken(i) => Phase(i) \in TerminalOutcomes)

\* C15: send_email makes at most retries attempts; it returns True right
\* after the first attempt that succeeds, every attempt before it having
\* failed and none following; it returns False exactly when all retries
\* attempts have failed; a failed attempt never raises out of it.
C15_AtMostRetriesAttempts ==
    LET call == calls[Last]
        n == Len(call.outcomes)
        failed == {k \in 1..n : ~call.outcomes[k]}
    IN  /\ n <= retries
        /\ mail_pc # "crashed"
        /\ mail_pc = "attempt" => (call.result = "running" /\ failed = 1..n)
        /\ call.result = "True" => (n >= 1 /\ call.outcomes[n] /\ failed = 1..(n - 1))
        /\ mail_pc = "returned" =>
             /\ call.result \in {"True", "False"}
             /\ call.result = "False" <=> (n = retries /\ failed = 1..n)
\* A call with retries 3 returned True at its third attempt, after two
\* failed ones.
C15_Witness ==
    /\ mail_pc = "returned"
    /\ retries = DefaultRetries
    /\ calls[Last].result = "True"
    /\ calls[Last].outcomes = <<FALSE, FALSE, TRUE>>

\* C16: the wait after a failed attempt grows exponentially with the
\* attempt number: each wait is longer than the one before, by a constant
\* factor.
C16_ExponentialBackoff ==
    LET w == calls[Last].waits
    IN  /\ \A k \in 1..(Len(w) - 1) : w[k + 1] > w[k]
        /\ \A k \in 1..(Len(w) - 2) : w[k + 1] * w[k + 1] = w[k] * w[k + 2]

\* C17: main calls send_email exactly once for every row of the recipients
\* file, in file order; a failed send, or a row without an email or a name
\* value, never keeps the rows after it from being sent.
C17_EveryRowSentOnce ==
    /\ Len(calls) <= Len(rows)
    /\ \A k \in DOMAIN calls : calls[k].row = k
    /\ mail_pc \in {"done", "crashed"} => Len(calls) = Len(rows)
====
